---- MODULE Spec2Model ----
(***************************************************************************)
(* A model of plotly.plotly.StreamWriter (src/plotly/plotly/plotly.py,     *)
(* lines 364-650): the handle's fields, the caller's open/write/close, the *)
(* backoff policies and the background thread that runs the _read_write    *)
(* coroutine; and of plotly.plotly.Stream (lines 653-835), whose methods   *)
(* pass what they are given to a chunked_requests stream.                  *)
(*                                                                         *)
(* Time is counted in milliseconds, so that linear_back_off_rate (0.250 s) *)
(* is a whole number.  Every method is an operator from the state before   *)
(* the call to the state after it; the field exc of the result holds the   *)
(* exception the call raised, if any.  The caller's calls are atomic; the  *)
(* coroutine is cut at its awaits, between the connection and the initial  *)
(* write, between the test of the loop and its body, and before finally.   *)
(*                                                                         *)
(* `status >= 500` (line 480) is evaluated with status None only under     *)
(* Python 2, where None orders below every int: under Python 3 the str     *)
(* writes of _initial_write are rejected by the transport, so no response  *)
(* is ever captured there.  NoStatus is therefore the smallest status.     *)
(***************************************************************************)
EXTENDS Integers, Sequences, FiniteSets, TLC

VARIABLES now, _queue, _last_beat, _connect_errors, _last_connect_error,
          _disconnections, _last_disconnection, _thread, _reader, _writer,
          _error, _response, _chunk, ignore_status_codes, ignore_errors,
          threads, conns, nseq, undrained, beats, drops, bo, raised, _stream,
          sent

vars == <<now, _queue, _last_beat, _connect_errors, _last_connect_error,
          _disconnections, _last_disconnection, _thread, _reader, _writer,
          _error, _response, _chunk, ignore_status_codes, ignore_errors,
          threads, conns, nseq, undrained, beats, drops, bo, raised,
          _stream, sent>>

\* ------------------------------------------------------------------ bounds
\* background threads one handle starts in a run
MaxThreads == 2
\* chunks enqueued in a run (caller writes and heartbeats)
MaxWrites == 3
\* the queue_length argument of __init__ (500 by default)
queue_length == 2
\* the clock stops here (ms)
MaxTime == 31000
\* the clock of the runs with two keep-alives stops here (ms)
PulseMaxTime == 62000
\* messages written to the stream of a Stream object in a run
MaxStreamWrites == 3
\* caps of the two failure counters in the handle's specification
MaxConnectErrors == 2
MaxDisconnections == 4
\* caps of the counters and of the clock in the backoff specification
BackoffMaxConnectErrors == 66
BackoffMaxDisconnections == 5
BackoffMaxTime == 680000
\* the two classes of failure in one run: the counts and the clock
MixedMaxConnectErrors == 4
MixedMaxDisconnections == 5
MixedMaxTime == 200000
\* the clock of a run of several sessions, one after the other
SessionMaxTime == 800000

\* --------------------------------------------------------------- constants
MsPerSecond == 1000
linear_back_off_rate == 250
linear_wait_max == 16
exponential_back_off_base == 5
exponential_wait_max == 320
pulse_interval == 30

\* None, for a reference (thread, reader, writer), a time and a status
NoRef == 0
NoTime == -1
NoStatus == 0
None == "None"

Threads == 1..MaxThreads
Caller == 0

\* an exception object: its class, and ClosedConnection's status_code and message
Exc(type) == [type |-> type, status |-> NoStatus, message |-> ""]
NoExc == Exc("None")
Raised(s) == s.exc.type # "None"
Raise(s, e) == [s EXCEPT !.exc = e]

\* the next statement runs on the state the last one left, unless that raised
Try(s, statement(_)) == IF Raised(s) THEN s ELSE statement(s)

\* isinstance(e, classes), for the classes modelled: socket.error, TimeoutError
\* (trollius), TypeError, AttributeError and the two plotly exceptions, none
\* of which derives from another
IsInstance(e, classes) == e.type \in classes

\* what a read of the connection can return besides None: the bytes of a
\* response with a status line, or b'' when the peer closed without one
Data == {"", "404", "408", "500"}

\* HttpResponseParser(...).get_response(): the status and the body, or
\* BadStatusLine (here None) when there is no status line
ParsedStatus(data) ==
    CASE data = "404" -> 404
      [] data = "408" -> 408
      [] data = "500" -> 500
      [] OTHER -> NoStatus

ParsedBody(data) == IF ParsedStatus(data) = NoStatus THEN "" ELSE "body of " \o data

\* b ^ n
RECURSIVE Pow(_, _)
Pow(b, n) == IF n = 0 THEN 1 ELSE b * Pow(b, n - 1)

\* bo lists the backoff evaluations of a step: the thread that ran it, the
\* time since the last failure of the class, the count before and after, the
\* wait computed, the argument of time.sleep (NoTime: no sleep) and whether
\* TooManyConnectFailures was raised
Evaluated(s, kind, elapsed, before, n, wait_time) ==
    [s EXCEPT !.bo = Append(@, [kind |-> kind, by |-> s.cur, elapsed |-> elapsed,
                                before |-> before, n |-> n, wait |-> wait_time,
                                slept |-> NoTime, raised |-> FALSE])]

\* time.sleep(wait_time) on the calling thread, in a backoff
sleep(s, wait_time) ==
    [s EXCEPT !.now = @ + wait_time, !.bo[Len(s.bo)].slept = wait_time]

\* raise exceptions.TooManyConnectFailures, in a backoff
TooMany(s) ==
    Raise([s EXCEPT !.bo[Len(s.bo)].raised = TRUE], Exc("TooManyConnectFailures"))

\* ------------------------------------------------------- StreamWriter
\* _reset that also replaces the queue by an empty one
_reset_queue(s) ==
    [s EXCEPT !._response = None, !._error = NoExc, !._last_beat = NoTime,
              !._reader = NoRef, !._writer = NoRef, !._queue = <<>>]

\* _reset that also clears the two failure counts, as if a reconnection
\* were a fresh start
_reset_counters(s) ==
    [s EXCEPT !._response = None, !._error = NoExc, !._last_beat = NoTime,
              !._reader = NoRef, !._writer = NoRef,
              !._connect_errors = 0, !._disconnections = 0]

_reset(s) ==
    [s EXCEPT !._response = None, !._error = NoExc, !._last_beat = NoTime,
              !._reader = NoRef, !._writer = NoRef]

\* _back_off_linearly with `wait_time >= linear_wait_max`
_back_off_linearly_ge(s) ==
    LET elapsed == s.now - s._last_connect_error
        errors0 == IF elapsed > linear_wait_max * 2 * MsPerSecond
                   THEN 0 ELSE s._connect_errors
        errors == errors0 + 1
        wait_time == errors * linear_back_off_rate
        s1 == Evaluated([s EXCEPT !._connect_errors = errors,
                                  !._last_connect_error = s.now],
                        "linear", elapsed, s._connect_errors, errors, wait_time)
    IN  IF wait_time >= linear_wait_max * MsPerSecond
        THEN TooMany(s1)
        ELSE sleep(s1, wait_time)

\* _back_off_linearly with `now - _last_connect_error >= linear_wait_max * 2`
_back_off_linearly_decay_ge(s) ==
    LET elapsed == s.now - s._last_connect_error
        errors0 == IF elapsed >= linear_wait_max * 2 * MsPerSecond
                   THEN 0 ELSE s._connect_errors
        errors == errors0 + 1
        wait_time == errors * linear_back_off_rate
        s1 == Evaluated([s EXCEPT !._connect_errors = errors,
                                  !._last_connect_error = s.now],
                        "linear", elapsed, s._connect_errors, errors, wait_time)
    IN  IF wait_time > linear_wait_max * MsPerSecond
        THEN TooMany(s1)
        ELSE sleep(s1, wait_time)

\* _back_off_exponentially with `exponential_back_off_base * _disconnections`
_back_off_exponentially_product(s) ==
    LET elapsed == s.now - s._last_disconnection
        disc0 == IF elapsed > exponential_wait_max * 2 * MsPerSecond
                 THEN 0 ELSE s._disconnections
        disc == disc0 + 1
        wait_time == exponential_back_off_base * disc * MsPerSecond
        s1 == Evaluated([s EXCEPT !._disconnections = disc,
                                  !._last_disconnection = s.now],
                        "exponential", elapsed, s._disconnections, disc, wait_time)
    IN  IF wait_time > exponential_wait_max * MsPerSecond
        THEN TooMany(s1)
        ELSE sleep(s1, wait_time)

\* _back_off_linearly that sleeps before it compares the wait to the ceiling
_back_off_linearly_sleep_first(s) ==
    LET elapsed == s.now - s._last_connect_error
        errors0 == IF elapsed > linear_wait_max * 2 * MsPerSecond
                   THEN 0 ELSE s._connect_errors
        errors == errors0 + 1
        wait_time == errors * linear_back_off_rate
        s1 == sleep(Evaluated([s EXCEPT !._connect_errors = errors,
                                        !._last_connect_error = s.now],
                              "linear", elapsed, s._connect_errors, errors,
                              wait_time), wait_time)
    IN  IF wait_time > linear_wait_max * MsPerSecond
        THEN TooMany(s1)
        ELSE s1

_back_off_linearly(s) ==
    LET elapsed == s.now - s._last_connect_error
        errors0 == IF elapsed > linear_wait_max * 2 * MsPerSecond
                   THEN 0 ELSE s._connect_errors
        errors == errors0 + 1
        wait_time == errors * linear_back_off_rate
        s1 == Evaluated([s EXCEPT !._connect_errors = errors,
                                  !._last_connect_error = s.now],
                        "linear", elapsed, s._connect_errors, errors, wait_time)
    IN  IF wait_time > linear_wait_max * MsPerSecond
        THEN TooMany(s1)
        ELSE sleep(s1, wait_time)

\* _back_off_exponentially that keeps one timestamp for both classes: it
\* records the time of the disconnection as that of the last connect error too
_back_off_exponentially_one_clock(s) ==
    LET elapsed == s.now - s._last_disconnection
        disc0 == IF elapsed > exponential_wait_max * 2 * MsPerSecond
                 THEN 0 ELSE s._disconnections
        disc == disc0 + 1
        wait_time == Pow(exponential_back_off_base, disc) * MsPerSecond
        s1 == Evaluated([s EXCEPT !._disconnections = disc,
                                  !._last_disconnection = s.now,
                                  !._last_connect_error = s.now],
                        "exponential", elapsed, s._disconnections, disc, wait_time)
    IN  IF wait_time > exponential_wait_max * MsPerSecond
        THEN TooMany(s1)
        ELSE sleep(s1, wait_time)

_back_off_exponentially(s) ==
    LET elapsed == s.now - s._last_disconnection
        disc0 == IF elapsed > exponential_wait_max * 2 * MsPerSecond
                 THEN 0 ELSE s._disconnections
        disc == disc0 + 1
        wait_time == Pow(exponential_back_off_base, disc) * MsPerSecond
        s1 == Evaluated([s EXCEPT !._disconnections = disc,
                                  !._last_disconnection = s.now],
                        "exponential", elapsed, s._disconnections, disc, wait_time)
    IN  IF wait_time > exponential_wait_max * MsPerSecond
        THEN TooMany(s1)
        ELSE sleep(s1, wait_time)

\* _raise_for_response with `status > 500` in the place of `status >= 500`
_raise_for_response_gt(s) ==
    IF s._response = None THEN s
    ELSE LET status == ParsedStatus(s._response)
             message == ParsedBody(s._response)
         IN  IF status \notin s.ignore_status_codes
             THEN Raise(s, [type |-> "ClosedConnection", status |-> status,
                            message |-> message])
             ELSE IF status > 500
                  THEN _back_off_linearly(s)
                  ELSE _back_off_exponentially(s)

\* _raise_for_response with the two backoffs exchanged
_raise_for_response_swapped(s) ==
    IF s._response = None THEN s
    ELSE LET status == ParsedStatus(s._response)
             message == ParsedBody(s._response)
         IN  IF status \notin s.ignore_status_codes
             THEN Raise(s, [type |-> "ClosedConnection", status |-> status,
                            message |-> message])
             ELSE IF status >= 500
                  THEN _back_off_exponentially(s)
                  ELSE _back_off_linearly(s)

\* _raise_for_response that backs off before it looks at ignore_status_codes
_raise_for_response_back_off_first(s) ==
    IF s._response = None THEN s
    ELSE LET status == ParsedStatus(s._response)
             message == ParsedBody(s._response)
             s1 == IF status >= 500
                   THEN _back_off_linearly(s)
                   ELSE _back_off_exponentially(s)
         IN  IF Raised(s1) THEN s1
             ELSE IF status \notin s.ignore_status_codes
                  THEN Raise(s1, [type |-> "ClosedConnection", status |-> status,
                                  message |-> message])
                  ELSE s1

_raise_for_response(s) ==
    IF s._response = None THEN s
    ELSE LET status == ParsedStatus(s._response)
             message == ParsedBody(s._response)
         IN  IF status \notin s.ignore_status_codes
             THEN Raise(s, [type |-> "ClosedConnection", status |-> status,
                            message |-> message])
             ELSE IF status >= 500
                  THEN _back_off_linearly(s)
                  ELSE _back_off_exponentially(s)

_raise_for_error(s) ==
    IF s._error = NoExc THEN s
    ELSE IF ~IsInstance(s._error, s.ignore_errors) THEN Raise(s, s._error)
    ELSE IF s._error.type = "socket.error" THEN _back_off_linearly(s)
    ELSE s

\* Thread.isAlive(): from start() until the thread function has returned
isAlive(s, t) == s.threads[t].pc \notin {"unstarted", "done"}

connected(s) == s._thread # NoRef /\ isAlive(s, s._thread)

NumStarted(s) == Cardinality({t \in Threads : s.threads[t].pc # "unstarted"})

\* DisconnectThread(target=self._thread_func); setDaemon; start()
StartThread(s) ==
    LET t == NumStarted(s) + 1
    IN  IF t > MaxThreads THEN [s EXCEPT !.overflow = TRUE]
        ELSE [s EXCEPT !._thread = t,
                       !.threads[t] = [pc |-> "connect", connected |-> TRUE]]

\* open without `if self.connected: return`
open_unguarded(s) ==
    Try(Try(Try(_raise_for_response(s), _raise_for_error), _reset), StartThread)

open(s) ==
    IF connected(s) THEN s
    ELSE Try(Try(Try(_raise_for_response(s), _raise_for_error), _reset),
             StartThread)

\* appendleft on a deque without maxlen
appendleft_unbounded(q, x) == <<x>> \o q

\* appendleft that refuses the new item when the deque is full
appendleft_keep_oldest(q, x) == IF Len(q) >= queue_length THEN q ELSE <<x>> \o q

\* deque(maxlen=queue_length).appendleft(x): a full deque drops its right end
appendleft(q, x) ==
    LET q1 == <<x>> \o q
    IN  IF Len(q1) > queue_length THEN SubSeq(q1, 1, queue_length) ELSE q1

\* self._queue.appendleft(item), with the number of the item in the run
enqueue(s, item) ==
    [s EXCEPT !._queue = appendleft(@, [seq |-> s.nseq + 1, chunk |-> item]),
              !.nseq = @ + 1,
              !.undrained = @ + 1]

\* write without `if not self.connected: self.open()`
write_no_open(s, chunk) == enqueue(s, chunk \o "\n")

\* write without the trailing line break: appendleft(chunk)
write_bare(s, chunk) ==
    Try(IF ~connected(s) THEN open(s) ELSE s, LAMBDA s1 : enqueue(s1, chunk))

\* write that puts the chunk in the queue before it opens the handle
write_enqueue_first(s, chunk) ==
    Try(enqueue(s, chunk \o "\n"),
        LAMBDA s1 : IF ~connected(s1) THEN open(s1) ELSE s1)

write(s, chunk) ==
    Try(IF ~connected(s) THEN open(s) ELSE s,
        LAMBDA s1 : enqueue(s1, chunk \o "\n"))

\* DisconnectThread.disconnect(): the thread's connected flag goes down
disconnect(s, t) == [s EXCEPT !.threads[t].connected = FALSE]

\* close without `self._thread.disconnect()`
close_no_signal(s) ==
    IF ~connected(s) THEN s
    ELSE [s EXCEPT !._thread = NoRef]

close(s) ==
    IF ~connected(s) THEN s
    ELSE [disconnect(s, s._thread) EXCEPT !._thread = NoRef]

\* the time of a keep-alive that write('') has enqueued goes to beats
KeepAlive(s) == IF Raised(s) THEN s ELSE [s EXCEPT !.beats = Append(@, s.now)]

\* _check_pulse without `self._last_beat = now`
_check_pulse_beat_not_recorded(s) ==
    LET beat == IF s._last_beat = NoTime THEN s.now ELSE s._last_beat
        s1 == [s EXCEPT !._last_beat = beat]
    IN  IF s.now - beat > pulse_interval * MsPerSecond
        THEN IF s1._queue = <<>> THEN KeepAlive(write(s1, "")) ELSE s1
        ELSE s1

_check_pulse(s) ==
    LET beat == IF s._last_beat = NoTime THEN s.now ELSE s._last_beat
        s1 == [s EXCEPT !._last_beat = beat]
    IN  IF s.now - beat > pulse_interval * MsPerSecond
        THEN LET s2 == [s1 EXCEPT !._last_beat = s.now]
             IN  IF s2._queue = <<>> THEN KeepAlive(write(s2, "")) ELSE s2
        ELSE s1

\* deque.popleft() in the place of pop()
popleft(q) == [item |-> q[1], rest |-> SubSeq(q, 2, Len(q))]

\* self._queue[-1] in the place of pop(): the item stays in the deque
peek(q) == [item |-> q[Len(q)], rest |-> q]

\* deque.pop(): the right end
pop(q) == [item |-> q[Len(q)], rest |-> SubSeq(q, 1, Len(q) - 1)]

\* self._writer.write(*args): the transport's write takes exactly one
\* argument, the data, which goes out on the connection
writer_write(s, args) ==
    IF s._writer = NoRef THEN Raise(s, Exc("AttributeError"))
    ELSE IF Len(args) # 1 THEN Raise(s, Exc("TypeError"))
    ELSE IF s.conns[s._writer].state = "open"
         THEN [s EXCEPT !.conns[s._writer].frames = Append(@, args[1])]
         ELSE s

\* '{}\r\n{}\r\n'.format(hex_len, chunk): the length line, then the payload
message(hex_len, chunk) == [hex_len |-> hex_len, payload |-> chunk]

\* _write with `while self._queue` in the place of `if self._queue`: all the
\* pending chunks are taken in one call
_write_drain(s) ==
    IF s._queue # <<>>
    THEN LET p == pop(s._queue)
             s1 == [s EXCEPT !._chunk = p.item, !._queue = <<>>,
                             !.undrained = 0]
         IN  writer_write(s1, <<>>)
    ELSE s

\* self._writer.write() is called without its data argument, before the
\* message is built: the call raises and the chunk taken is not sent
_write(s) ==
    IF s._queue # <<>>
    THEN LET p == pop(s._queue)
             s1 == [s EXCEPT !._chunk = p.item, !._queue = p.rest,
                             !.undrained = 0]
             hex_len == Len(s1._chunk.chunk)
             s2 == writer_write(s1, <<>>)
         IN  IF Raised(s2) THEN s2
             ELSE writer_write(s2, <<message(hex_len, s1._chunk.chunk)>>)
    ELSE s

\* ------------------------------------------------- the background thread
\* except Exception as e: self._error = e; the coroutine goes to its finally
Fail(s, t) ==
    [s EXCEPT !._error = s.exc, !.exc = NoExc, !.threads[t].pc = "finally"]

\* the coroutine goes on to its next await, unless the statements raised
Await(s, t, pc) ==
    IF Raised(s) THEN Fail(s, t) ELSE [s EXCEPT !.threads[t].pc = pc]

\* the outcomes of trollius.open_connection under wait_for(timeout=60)
ConnectOutcomes == {"ok", "socket.error", "TimeoutError"}

\* self._reader, self._writer = yield From(wait_for(open_connection(...)))
open_connection(s, t, outcome) ==
    IF outcome = "ok"
    THEN [s EXCEPT !.conns[t].state = "open", !._reader = t, !._writer = t,
                   !.threads[t].pc = "handshake"]
    ELSE Fail(Raise(s, Exc(outcome)), t)

\* the request line, the headers and the blank line go to self._writer
_initial_write(s) ==
    IF s._writer = NoRef THEN Raise(s, Exc("AttributeError"))
    ELSE IF s.conns[s._writer].state = "open"
         THEN [s EXCEPT !.conns[s._writer].handshakes = @ + 1]
         ELSE s

\* self._reader.read() is called, then awaited under wait_for(timeout)
_read(s) ==
    IF s._reader = NoRef THEN Raise(s, Exc("AttributeError")) ELSE s

\* self._response = <what the read gave>: data from the server is its
\* response, after which it disconnects; drops records the time
respond(s, data) ==
    IF data = None THEN [s EXCEPT !._response = data]
    ELSE [s EXCEPT !._response = data, !.drops = Append(@, s.now)]

\* what the awaited read gives: None on a timeout, the bytes read, or an error
ReadOutcomes ==
    {[raise |-> FALSE, data |-> d] : d \in Data \cup {None}}
        \cup {[raise |-> TRUE, data |-> None]}

handshake(s, t) ==
    LET s1 == _initial_write(s)
        s2 == IF Raised(s1) THEN s1 ELSE _read(s1)
    IN  IF Raised(s2) THEN Fail(s2, t)
        ELSE [s2 EXCEPT !.threads[t].pc = "initread"]

\* while self._response is None and current_thread.connected
loop_test(s, t) ==
    IF s._response = None /\ s.threads[t].connected
    THEN [s EXCEPT !.threads[t].pc = "pulse"]
    ELSE [s EXCEPT !.threads[t].pc = "finally"]

\* self._response = yield From(self._read(self.initial_write_timeout)),
\* then the first test of the loop
initial_read(s, t, outcome) ==
    IF outcome.raise THEN Fail(Raise(s, Exc("socket.error")), t)
    ELSE loop_test(respond(s, outcome.data), t)

\* self._check_pulse(), then the call of self._read()
pulse(s, t) == Await(Try(_check_pulse(s), _read), t, "read")

\* self._response = yield From(self._read()); self._write(); the next test
read_write(s, t, outcome) ==
    IF outcome.raise THEN Fail(Raise(s, Exc("socket.error")), t)
    ELSE LET s1 == _write(respond(s, outcome.data))
         IN  IF Raised(s1) THEN Fail(s1, t) ELSE loop_test(s1, t)

\* finally: if self._writer: self._writer.close(); the thread function returns
finally(s, t) ==
    LET s1 == IF s._writer # NoRef
              THEN [s EXCEPT !.conns[s._writer].state = "closed"]
              ELSE s
    IN  [s1 EXCEPT !.threads[t].pc = "done"]

\* ------------------------------------------------------- class Stream
\* Stream._stream before open(): None
NoStream == [opened |-> FALSE, closed |-> FALSE]

\* exceptions.PlotlyError(text), with the first words of the text
PlotlyError(text) ==
    [type |-> "PlotlyError", status |-> NoStatus, message |-> text]

NotOpened == "Stream has not been opened yet"

\* the trace objects given to Stream.write, dictionary-like, with what
\* tools.validate and tools.validate_stream find of them
Traces == {[data |-> "x", valid |-> v, streamable |-> st] : v, st \in BOOLEAN}

\* the layout keyword of Stream.write: None, a valid Layout, an invalid one
Layouts == {[given |-> FALSE, valid |-> TRUE], [given |-> TRUE, valid |-> TRUE],
            [given |-> TRUE, valid |-> FALSE]}

\* tools.validate(obj, obj_type) and tools.validate_stream(obj, obj_type)
\* raise PlotlyError for an object that is not valid, not streamable
validate(obj) == obj.valid
validate_stream(obj) == obj.streamable

\* the outcomes of chunked_requests.Stream(server, port, headers), which
\* connects to the server
StreamOutcomes == {"ok", "socket.error"}

\* chunked_requests.Stream.write(data, reconnect_on): the data goes to the
\* server, on a new connection if the old one is closed; on None the
\* attribute lookup raises AttributeError
_stream_write(s, data) ==
    IF ~s._stream.opened THEN Raise(s, Exc("AttributeError"))
    ELSE [s EXCEPT !._stream.closed = FALSE, !.sent = Append(@, data)]

\* chunked_requests.Stream.close()
_stream_close(s) ==
    IF ~s._stream.opened THEN Raise(s, Exc("AttributeError"))
    ELSE [s EXCEPT !._stream.closed = TRUE]

\* Stream.heartbeat without the try / except AttributeError
Stream_heartbeat_unguarded(s) == _stream_write(s, [data |-> "\n", layout |-> FALSE])

Stream_heartbeat(s) ==
    LET s1 == _stream_write(s, [data |-> "\n", layout |-> FALSE])
    IN  IF Raised(s1) /\ s1.exc.type = "AttributeError"
        THEN Raise(s1, PlotlyError(NotOpened))
        ELSE s1

Stream_open(s, outcome) ==
    IF outcome = "ok"
    THEN [s EXCEPT !._stream = [opened |-> TRUE, closed |-> FALSE]]
    ELSE Raise(s, Exc(outcome))

Stream_write(s, trace, layout, validating) ==
    IF validating /\ ~validate(trace)
    THEN Raise(s, PlotlyError("Part of the data object is invalid"))
    ELSE IF validating /\ ~validate_stream(trace)
    THEN Raise(s, PlotlyError("Part of the data object cannot yet be streamed"))
    ELSE IF validating /\ layout.given /\ ~validate(layout)
    THEN Raise(s, PlotlyError("Your layout kwarg was invalid"))
    ELSE LET jdata == [data |-> trace.data \o "\n", layout |-> layout.given]
             s1 == _stream_write(s, jdata)
         IN  IF Raised(s1) /\ s1.exc.type = "AttributeError"
             THEN Raise(s1, PlotlyError(NotOpened))
             ELSE s1

Stream_close(s) ==
    LET s1 == _stream_close(s)
    IN  IF Raised(s1) /\ s1.exc.type = "AttributeError"
        THEN Raise(s1, PlotlyError(NotOpened))
        ELSE s1

\* ----------------------------------------------------------- the state
NoChunk == [seq |-> 0, chunk |-> ""]
NoRaise == [op |-> "none", exc |-> NoExc]

\* ignore_status_codes and ignore_errors as given to __init__: the defaults first
Configs ==
    {[ignore_status_codes |-> {NoStatus, 200}, ignore_errors |-> {}],
     [ignore_status_codes |-> {NoStatus, 200, 404, 500},
      ignore_errors |-> {"socket.error", "TimeoutError"}]}

\* the chunks the caller writes
Chunks == {"x"}
\* the steps of the clock (ms)
Delays == {31000}

Init ==
    /\ now = 0
    /\ _queue = <<>>
    /\ _last_beat = NoTime
    /\ _connect_errors = 0
    /\ _last_connect_error = 0
    /\ _disconnections = 0
    /\ _last_disconnection = 0
    /\ _thread = NoRef
    /\ _reader = NoRef
    /\ _writer = NoRef
    /\ _error = NoExc
    /\ _response = None
    /\ _chunk = NoChunk
    /\ \E c \in Configs : /\ ignore_status_codes = c.ignore_status_codes
                           /\ ignore_errors = c.ignore_errors
    /\ threads = [t \in Threads |-> [pc |-> "unstarted", connected |-> TRUE]]
    /\ conns = [t \in Threads |-> [state |-> "none", handshakes |-> 0,
                                   frames |-> <<>>]]
    /\ nseq = 0
    /\ undrained = 0
    /\ beats = <<>>
    /\ drops = <<>>
    /\ bo = <<>>
    /\ raised = NoRaise
    /\ _stream = NoStream
    /\ sent = <<>>

\* the state as the methods see it, with `cur` the thread that runs the call;
\* beats records the times at which _check_pulse enqueued a keep-alive,
\* drops the times at which a thread received a response of the server's;
\* _stream and sent belong to a Stream object: its chunked_requests stream
\* and what was written to it;
\* bo and raised record what the step that led to a state did: the backoff
\* evaluations in it, and what it raised to the caller
Self(cur) ==
    [cur |-> cur, exc |-> NoExc, overflow |-> FALSE,
     now |-> now, _queue |-> _queue, _last_beat |-> _last_beat,
     _connect_errors |-> _connect_errors,
     _last_connect_error |-> _last_connect_error,
     _disconnections |-> _disconnections,
     _last_disconnection |-> _last_disconnection,
     _thread |-> _thread, _reader |-> _reader, _writer |-> _writer,
     _error |-> _error, _response |-> _response, _chunk |-> _chunk,
     ignore_status_codes |-> ignore_status_codes,
     ignore_errors |-> ignore_errors,
     threads |-> threads, conns |-> conns, nseq |-> nseq,
     undrained |-> undrained, beats |-> beats, drops |-> drops,
     bo |-> <<>>,
     raised |-> NoRaise, _stream |-> _stream, sent |-> sent]

Commit(r) ==
    /\ now' = r.now
    /\ _queue' = r._queue
    /\ _last_beat' = r._last_beat
    /\ _connect_errors' = r._connect_errors
    /\ _last_connect_error' = r._last_connect_error
    /\ _disconnections' = r._disconnections
    /\ _last_disconnection' = r._last_disconnection
    /\ _thread' = r._thread
    /\ _reader' = r._reader
    /\ _writer' = r._writer
    /\ _error' = r._error
    /\ _response' = r._response
    /\ _chunk' = r._chunk
    /\ ignore_status_codes' = r.ignore_status_codes
    /\ ignore_errors' = r.ignore_errors
    /\ threads' = r.threads
    /\ conns' = r.conns
    /\ nseq' = r.nseq
    /\ undrained' = r.undrained
    /\ beats' = r.beats
    /\ drops' = r.drops
    /\ bo' = r.bo
    /\ raised' = r.raised
    /\ _stream' = r._stream
    /\ sent' = r.sent

WithinBounds(r) ==
    /\ ~r.overflow
    /\ r.now <= MaxTime
    /\ r.nseq <= MaxWrites
    /\ r._connect_errors <= MaxConnectErrors
    /\ r._disconnections <= MaxDisconnections

\* a call of the caller's, with what it raised
Call(op, result) ==
    \E r \in {result} :
        /\ WithinBounds(r)
        /\ Commit([r EXCEPT !.raised = IF Raised(r) THEN [op |-> op, exc |-> r.exc]
                                       ELSE NoRaise])

CallOpen == Call("open", open(Self(Caller)))

CallWrite(chunk) == Call("write", write(Self(Caller), chunk))

CallClose == Call("close", close(Self(Caller)))

Tick(d) ==
    /\ now + d <= MaxTime
    /\ Commit([Self(Caller) EXCEPT !.now = @ + d])

Step(result) == \E r \in {result} : WithinBounds(r) /\ Commit(r)

Connect(t) ==
    /\ threads[t].pc = "connect"
    /\ \E outcome \in ConnectOutcomes : Step(open_connection(Self(t), t, outcome))

Handshake(t) == threads[t].pc = "handshake" /\ Step(handshake(Self(t), t))

InitRead(t) ==
    /\ threads[t].pc = "initread"
    /\ \E outcome \in ReadOutcomes : Step(initial_read(Self(t), t, outcome))

Pulse(t) == threads[t].pc = "pulse" /\ Step(pulse(Self(t), t))

ReadWrite(t) ==
    /\ threads[t].pc = "read"
    /\ \E outcome \in ReadOutcomes : Step(read_write(Self(t), t, outcome))

Finally(t) == threads[t].pc = "finally" /\ Step(finally(Self(t), t))

Worker(t) ==
    \/ Connect(t)
    \/ Handshake(t)
    \/ InitRead(t)
    \/ Pulse(t)
    \/ ReadWrite(t)
    \/ Finally(t)

Next ==
    \/ CallOpen
    \/ \E chunk \in Chunks : CallWrite(chunk)
    \/ CallClose
    \/ \E d \in Delays : Tick(d)
    \/ \E t \in Threads : Worker(t)

Spec == Init /\ [][Next]_vars

\* ------------------------------- the two backoff policies on their own
\* the time that passes between two failures (ms), besides the sleeps: with
\* the first sleep of each class, the first is exactly twice the linear
\* ceiling and the second exactly twice the exponential one
BackoffDelays == {31750, 635000}

BackoffWithinBounds(r) ==
    /\ r.now <= BackoffMaxTime
    /\ r._connect_errors <= BackoffMaxConnectErrors
    /\ r._disconnections <= BackoffMaxDisconnections

Evaluate(op, result) ==
    \E r \in {result} :
        /\ BackoffWithinBounds(r)
        /\ Commit([r EXCEPT !.raised = IF Raised(r) THEN [op |-> op, exc |-> r.exc]
                                       ELSE NoRaise])

\* a run of this specification has failures of one class only
BackOffLinearly ==
    /\ _disconnections = 0
    /\ Evaluate("_back_off_linearly", _back_off_linearly(Self(Caller)))

BackOffExponentially ==
    /\ _connect_errors = 0
    /\ Evaluate("_back_off_exponentially", _back_off_exponentially(Self(Caller)))

\* the clock advances while a failure is still inside its decay window: a
\* longer wait is seen by the next evaluation exactly as this one is
InsideDecayWindow ==
    \/ /\ _connect_errors > 0
       /\ now - _last_connect_error <= 2 * linear_wait_max * MsPerSecond
    \/ /\ _disconnections > 0
       /\ now - _last_disconnection <= 2 * exponential_wait_max * MsPerSecond

BackoffTick(d) ==
    /\ InsideDecayWindow
    /\ now + d <= BackoffMaxTime
    /\ Commit([Self(Caller) EXCEPT !.now = @ + d])

NextBackoff ==
    \/ BackOffLinearly
    \/ BackOffExponentially
    \/ \E d \in BackoffDelays : BackoffTick(d)

SpecBackoff == Init /\ [][NextBackoff]_vars

\* ------------------------------------------------------------- claims
AliveWorkers == {t \in Threads : isAlive(Self(Caller), t)}

\* C1: at most one background worker started by the StreamWriter is alive
\* (connecting or in its read/write loop) at any time.
C1_AtMostOneLiveWorker == Cardinality(AliveWorkers) <= 1

\* the caller keeps calling open() and every started thread keeps running
FairSpec ==
    /\ Spec
    /\ WF_vars(CallOpen)
    /\ \A t \in Threads : WF_vars(Worker(t))

\* no worker is alive and the last one left a response with a status that is
\* not ignorable, or an error that is not ignorable
EndedOnFailure ==
    /\ AliveWorkers = {}
    /\ \/ /\ _response # None
          /\ ParsedStatus(_response) \notin ignore_status_codes
       \/ /\ _error # NoExc
          /\ ~IsInstance(_error, ignore_errors)

\* C2 as stated: from a disconnected state in which the worker ended on a
\* non-ignorable status or a non-ignorable exception, repeated open() calls
\* eventually start a new worker.
C2_AlwaysReenterable == EndedOnFailure ~> (AliveWorkers # {})

\* C3: the number of pending chunks in the outbound queue never exceeds the
\* configured queue_length.
C3_QueueBounded == Len(_queue) <= queue_length

\* a chunk was enqueued on a full queue: more chunks than the queue holds
\* were enqueued since the last dequeue
C3_Witness == undrained > queue_length /\ Len(_queue) = queue_length

\* C4: after n > queue_length enqueues with no dequeue in between, the queue
\* holds exactly the queue_length most recently written chunks, the newest at
\* the left, and none of the older ones.
C4_KeepsMostRecent ==
    undrained > queue_length =>
        /\ Len(_queue) = queue_length
        /\ \A i \in 1..queue_length : _queue[i].seq = nseq - i + 1

C4_Witness == undrained = queue_length + 1 /\ _queue[1].seq = nseq /\ nseq > queue_length

\* C5 as stated: a dequeue takes the most recently enqueued chunk of the queue.
C5_TakesNewest ==
    [][_chunk' # _chunk =>
         \A i \in 1..Len(_queue) : _queue[i].seq <= _chunk'.seq]_vars

\* C5, amended: a dequeue takes the least recently enqueued chunk of the
\* queue (first in, first out), and leaves the others in their order.
C5_TakesOldest ==
    [][_chunk' # _chunk =>
         /\ \A i \in 1..Len(_queue) : _queue[i].seq >= _chunk'.seq
         /\ _queue = Append(_queue', _chunk')]_vars

\* a chunk was taken from a queue that held a later chunk too
C5_Witness ==
    /\ _chunk # NoChunk
    /\ undrained = 0
    /\ _queue # <<>>
    /\ \A i \in 1..Len(_queue) : _queue[i].seq > _chunk.seq

\* C6 as stated: an exception raised inside the worker is stored as the
\* pending error and, once the worker has ended, the next open() call (with
\* the default, empty ignore_errors) raises that same error and starts no
\* worker.
C6_NextOpenRaisesStoredError ==
    [][(CallOpen /\ ignore_errors = {} /\ _error # NoExc /\ AliveWorkers = {}) =>
           /\ raised' = [op |-> "open", exc |-> _error]
           /\ threads' = threads]_vars

\* C7: when open() finds a captured response whose status is not in
\* ignore_status_codes it raises ClosedConnection with that status and body,
\* and evaluates no backoff, resets nothing and starts no thread; otherwise
\* it first evaluates the linear backoff when the status is >= 500 and the
\* exponential backoff for every other status (no status included), it does
\* not raise ClosedConnection, and unless the backoff raises
\* TooManyConnectFailures or a pending error is raised it resets the handle
\* and starts a new thread.
C7_ResponseOnOpen ==
    [][(CallOpen /\ ~connected(Self(Caller)) /\ _response # None) =>
           LET status == ParsedStatus(_response)
           IN  IF status \notin ignore_status_codes
               THEN /\ raised' = [op |-> "open",
                                  exc |-> [type |-> "ClosedConnection",
                                           status |-> status,
                                           message |-> ParsedBody(_response)]]
                    /\ bo' = <<>>
                    /\ UNCHANGED <<threads, _response, _error, _connect_errors,
                                   _disconnections>>
               ELSE /\ bo' # <<>>
                    /\ bo'[1].kind = IF status >= 500 THEN "linear" ELSE "exponential"
                    /\ raised'.exc.type # "ClosedConnection"
                    /\ raised' # NoRaise =>
                           /\ raised'.op = "open"
                           /\ \/ raised'.exc.type = "TooManyConnectFailures"
                              \/ raised'.exc = _error
                           /\ threads' = threads
                    /\ raised' = NoRaise =>
                           /\ _response' = None
                           /\ _thread' = NumStarted(Self(Caller)) + 1
                           /\ threads'[_thread'].pc = "connect"]_vars

\* open() found a response with an ignorable status 500, backed off linearly
\* on the caller's thread, reset the handle and started a thread
C7_Witness ==
    /\ raised = NoRaise
    /\ Len(bo) = 1
    /\ bo[1].kind = "linear"
    /\ bo[1].by = Caller
    /\ _response = None
    /\ _thread # NoRef
    /\ threads[_thread].pc = "connect"

\* the step is an evaluation of the backoff of this kind
Backoff(kind) == bo' # <<>> /\ bo'[1].kind = kind

RaisedTooMany == [op |-> "_back_off_linearly", exc |-> Exc("TooManyConnectFailures")]

\* C8: at the N-th connect failure since the last reset of the counter
\* (N >= 1) the linear backoff sleeps exactly N * 0.25 s when N * 0.25 <= 16,
\* and raises TooManyConnectFailures without sleeping when N * 0.25 > 16;
\* it raises exactly when N >= 65.
C8_LinearBackoff ==
    [][Backoff("linear") =>
          LET N == _connect_errors'
          IN  /\ N >= 1
              /\ IF N * 250 <= 16000
                 THEN /\ bo'[1].slept = N * 250
                      /\ now' = now + N * 250
                      /\ raised' = NoRaise
                 ELSE /\ bo'[1].slept = NoTime
                      /\ now' = now
                      /\ raised' = RaisedTooMany
              /\ raised' # NoRaise <=> N >= 65]_vars

\* the 65th connect failure in a row: the first one to raise
C8_Witness ==
    /\ bo # <<>>
    /\ bo[1].kind = "linear"
    /\ bo[1].before = 64
    /\ _connect_errors = 65
    /\ raised.exc.type = "TooManyConnectFailures"

\* C9: at the N-th disconnection since the last reset of the counter the
\* exponential backoff sleeps exactly 5^N s when 5^N <= 320 (5, 25 and 125 s
\* for N = 1, 2, 3), and raises TooManyConnectFailures without sleeping when
\* 5^N > 320; it raises exactly when N >= 4.
C9_ExponentialBackoff ==
    [][Backoff("exponential") =>
          LET N == _disconnections'
              wait == Pow(5, N) * 1000
          IN  /\ N >= 1
              /\ N = 1 => wait = 5000
              /\ N = 2 => wait = 25000
              /\ N = 3 => wait = 125000
              /\ IF wait <= 320000
                 THEN /\ bo'[1].slept = wait
                      /\ now' = now + wait
                      /\ raised' = NoRaise
                 ELSE /\ bo'[1].slept = NoTime
                      /\ now' = now
                      /\ raised'.op = "_back_off_exponentially"
                      /\ raised'.exc = Exc("TooManyConnectFailures")
              /\ raised' # NoRaise <=> N >= 4]_vars

\* the 4th disconnection in a row: the first one to raise
C9_Witness ==
    /\ bo # <<>>
    /\ bo[1].kind = "exponential"
    /\ bo[1].before = 3
    /\ _disconnections = 4
    /\ raised.exc.type = "TooManyConnectFailures"

\* C10: when a backoff is evaluated more than twice its class's ceiling
\* after the previous failure of the class (more than 32 s for the linear
\* class, more than 640 s for the exponential one) the failure counts as
\* number 1; when at most twice the ceiling has passed, the counter is
\* incremented without a reset.
C10_CounterDecay ==
    [][/\ Backoff("linear") =>
             _connect_errors' = IF now - _last_connect_error > 32000
                                THEN 1 ELSE _connect_errors + 1
       /\ Backoff("exponential") =>
             _disconnections' = IF now - _last_disconnection > 640000
                                THEN 1 ELSE _disconnections + 1]_vars

\* a connect failure more than 32 s after the second one in a row counted
\* as number 1
C10_Witness ==
    /\ bo # <<>>
    /\ bo[1].kind = "linear"
    /\ bo[1].before >= 2
    /\ bo[1].elapsed > 32000
    /\ _connect_errors = 1

\* C11 as stated: no backoff sleep runs on the caller's thread; every
\* time.sleep of a backoff is executed by a background thread.
C11_NoSleepOnCaller ==
    \A i \in 1..Len(bo) : bo[i].by = Caller => bo[i].slept = NoTime

\* C12 as stated: the read of a worker that returns a response is followed by
\* no dequeue by that worker: the step that captures a response leaves the
\* queue and the chunk taken last as they were.
C12_NoDequeueAfterResponse ==
    [][\A t \in Threads :
           (ReadWrite(t) /\ _response' # None) =>
               /\ _queue' = _queue
               /\ _chunk' = _chunk]_vars

\* C13 as stated, in the form a finite run refutes: a worker that close()
\* told to stop and that has terminated has closed the connection it opened.
C13_StoppedWorkerClosesConnection ==
    \A t \in Threads :
        (threads[t].pc = "done" /\ ~threads[t].connected) =>
            conns[t].state # "open"

\* C14: a write(chunk) of the caller on a handle that is not connected and
\* has neither a response nor an error pending starts exactly one thread,
\* which becomes the handle's thread, and then puts the chunk with its line
\* break at the left of the queue; on a connected handle it puts the chunk
\* in the queue and starts no thread. It raises nothing in either case.
C14_WriteOpensThenEnqueues ==
    [][\A chunk \in Chunks :
           CallWrite(chunk) =>
               LET s == Self(Caller)
                   item == [seq |-> nseq + 1, chunk |-> chunk \o "\n"]
               IN  /\ (~connected(s) /\ _response = None /\ _error = NoExc) =>
                          /\ NumStarted(Self(Caller))' = NumStarted(s) + 1
                          /\ _thread' = NumStarted(s) + 1
                          /\ threads' = [threads EXCEPT ![_thread'] =
                                             [pc |-> "connect", connected |-> TRUE]]
                          /\ _queue' = appendleft(_queue, item)
                          /\ raised' = NoRaise
                   /\ connected(s) =>
                          /\ threads' = threads
                          /\ _thread' = _thread
                          /\ _queue' = appendleft(_queue, item)
                          /\ raised' = NoRaise]_vars

\* the first call on a handle was a write: one thread started, one chunk queued
C14_Witness ==
    /\ _thread = 1
    /\ threads[1].pc = "connect"
    /\ NumStarted(Self(Caller)) = 1
    /\ nseq = 1
    /\ _queue = <<[seq |-> 1, chunk |-> "x\n"]>>
    /\ raised = NoRaise

\* the fields of the handle, the threads and the connections: every variable
\* but the clock and the records of what the last step did
handle == <<_queue, _last_beat, _connect_errors, _last_connect_error,
            _disconnections, _last_disconnection, _thread, _reader, _writer,
            _error, _response, _chunk, ignore_status_codes, ignore_errors,
            threads, conns, nseq, undrained>>

\* C15: an open() on a connected handle starts no thread, raises nothing,
\* evaluates no backoff, takes no time and leaves every field of the handle
\* (queue, response, error, heartbeat time, reader, writer, both counters and
\* their times) as it was.
C15_OpenConnectedIsNoOp ==
    [][(CallOpen /\ connected(Self(Caller))) =>
           /\ UNCHANGED handle
           /\ now' = now
           /\ bo' = <<>>
           /\ raised' = NoRaise]_vars

\* a connected handle whose thread is in its loop, with a chunk queued and
\* the heartbeat time set: open() is a step of this state
C15_Witness ==
    /\ connected(Self(Caller))
    /\ threads[_thread].pc = "read"
    /\ _queue # <<>>
    /\ _last_beat # NoTime
    /\ ENABLED CallOpen

\* C16: a close() on a handle that is not connected changes no field and
\* raises nothing; a close() on a connected handle lowers the connected flag
\* of the handle's thread, sets the handle's thread reference to None and
\* changes nothing else: the queue and both failure counters stay as they
\* were, and nothing is raised.
C16_CloseEffect ==
    [][CallClose =>
           /\ raised' = NoRaise
           /\ now' = now
           /\ IF ~connected(Self(Caller))
              THEN UNCHANGED handle
              ELSE /\ threads' = [threads EXCEPT ![_thread].connected = FALSE]
                   /\ _thread' = NoRef
                   /\ UNCHANGED <<_queue, _connect_errors, _last_connect_error,
                                  _disconnections, _last_disconnection,
                                  _last_beat, _reader, _writer, _error,
                                  _response, _chunk, conns, nseq, undrained>>]_vars

\* close() was called on a connected handle with a chunk queued: the thread
\* is alive with its flag down and the handle has no thread
C16_Witness ==
    /\ _thread = NoRef
    /\ \E t \in Threads : isAlive(Self(Caller), t) /\ ~threads[t].connected
    /\ _queue # <<>>

\* C17 as stated: connected holds exactly when a thread of the handle is
\* alive, a thread that close() told to stop and that has not yet ended
\* included.
C17_ConnectedIffWorkerAlive == connected(Self(Caller)) <=> AliveWorkers # {}

\* a read of thread t, the initial one or one of the loop, after which the
\* response held is one with this status
Captured(t, status) ==
    /\ threads[t].pc \in {"initread", "read"}
    /\ threads'[t].pc # threads[t].pc
    /\ _response' # None
    /\ ParsedStatus(_response') = status

\* an open() of the caller that finds the handle not connected and a
\* response with this status
OpenFinds(status) ==
    /\ CallOpen
    /\ ~connected(Self(Caller))
    /\ _response # None
    /\ ParsedStatus(_response) = status

ClosedConnection(data) ==
    [op |-> "open", exc |-> [type |-> "ClosedConnection",
                             status |-> ParsedStatus(data),
                             message |-> ParsedBody(data)]]

\* C18 as stated: the thread that reads a response with status 500 leaves
\* its loop, and the linear backoff is evaluated for that response.
C18_Status500BacksOffLinearly ==
    [][/\ \A t \in Threads : Captured(t, 500) => threads'[t].pc = "finally"
       /\ OpenFinds(500) => (bo' # <<>> /\ bo'[1].kind = "linear")]_vars

\* C18, amended: the thread that reads a response with status 500 leaves its
\* loop; the next open() that finds the handle not connected evaluates the
\* linear backoff for it, and no exponential one, when 500 is in
\* ignore_status_codes, and raises ClosedConnection with status 500 and the
\* body, evaluating no backoff, when it is not (the default).
C18_Status500 ==
    [][/\ \A t \in Threads : Captured(t, 500) => threads'[t].pc = "finally"
       /\ OpenFinds(500) =>
              IF 500 \in ignore_status_codes
              THEN /\ bo' # <<>>
                   /\ \A i \in 1..Len(bo') : bo'[i].kind = "linear"
                   /\ UNCHANGED <<_disconnections, _last_disconnection>>
                   /\ bo'[1].by = Caller
                   /\ _connect_errors' >= 1
                   /\ _last_connect_error' >= now
                   /\ raised'.exc.type # "ClosedConnection"
              ELSE /\ raised' = ClosedConnection(_response)
                   /\ bo' = <<>>
                   /\ UNCHANGED <<_connect_errors, _last_connect_error,
                                  _disconnections, _last_disconnection>>]_vars

\* open() found an ignorable response with status 500: one linear backoff,
\* the connect-failure counter at 1, the disconnect counter untouched
C18_Witness ==
    /\ 500 \in ignore_status_codes
    /\ Len(bo) = 1
    /\ bo[1].kind = "linear"
    /\ bo[1].slept = linear_back_off_rate
    /\ _connect_errors = 1
    /\ _disconnections = 0
    /\ AliveWorkers = {_thread}

\* C19 as stated: the thread that reads a response with status 404 leaves
\* its loop, the exponential backoff is evaluated for that response and the
\* next open() raises ClosedConnection.
C19_Status404BacksOffAndRaises ==
    [][/\ \A t \in Threads : Captured(t, 404) => threads'[t].pc = "finally"
       /\ OpenFinds(404) =>
              /\ bo' # <<>>
              /\ bo'[1].kind = "exponential"
              /\ raised'.exc.type = "ClosedConnection"]_vars

\* C19, amended: the thread that reads a response with status 404 leaves its
\* loop; the next open() that finds the handle not connected raises
\* ClosedConnection with status 404 and the body, evaluating no backoff, when
\* 404 is not in ignore_status_codes (the default), and evaluates the
\* exponential backoff for it, without raising ClosedConnection, when it is.
C19_Status404 ==
    [][/\ \A t \in Threads : Captured(t, 404) => threads'[t].pc = "finally"
       /\ OpenFinds(404) =>
              IF 404 \notin ignore_status_codes
              THEN /\ raised' = ClosedConnection(_response)
                   /\ bo' = <<>>
                   /\ UNCHANGED <<_connect_errors, _last_connect_error,
                                  _disconnections, _last_disconnection>>
              ELSE /\ bo' # <<>>
                   /\ bo'[1].kind = "exponential"
                   /\ _last_disconnection' = now
                   /\ raised'.exc.type # "ClosedConnection"]_vars

\* with the default configuration open() found a response with status 404
\* and raised ClosedConnection for it
C19_Witness ==
    /\ 404 \notin ignore_status_codes
    /\ _response = "404"
    /\ raised = ClosedConnection("404")
    /\ bo = <<>>
    /\ AliveWorkers = {}

\* C20 as stated: with the default configuration, an open() that finds a
\* response with status 408 does not raise ClosedConnection; it backs off,
\* resets and starts a thread.
C20_Status408Ignorable ==
    [][(OpenFinds(408) /\ ignore_status_codes = {NoStatus, 200}
                       /\ ignore_errors = {}) =>
           /\ raised'.exc.type # "ClosedConnection"
           /\ bo' # <<>>]_vars


\* ------------------------------------------------ open() called again
\* a caller that calls open() again after each failure, however long the
\* backoffs of the earlier calls have slept
RetryOpen ==
    \E r \in {open(Self(Caller))} :
        /\ ~r.overflow
        /\ r.nseq <= MaxWrites
        /\ Evaluate("open", r)

\* the _check_pulse of a thread that is still in its loop by then
LatePulse(t) ==
    /\ threads[t].pc = "pulse"
    /\ \E r \in {pulse(Self(t), t)} :
           /\ ~r.overflow
           /\ r.nseq <= MaxWrites
           /\ BackoffWithinBounds(r)
           /\ Commit(r)

NextRetry ==
    \/ RetryOpen
    \/ \E chunk \in Chunks : CallWrite(chunk)
    \/ CallClose
    \/ \E t \in Threads : Worker(t)
    \/ \E t \in Threads : LatePulse(t)

SpecRetry == Init /\ [][NextRetry]_vars

\* ------------------------------------------------- a second keep-alive
\* the clock goes on to PulseMaxTime, for the threads still in their loops
LateTick(d) ==
    /\ now + d <= PulseMaxTime
    /\ Commit([Self(Caller) EXCEPT !.now = @ + d])

NextPulse ==
    \/ Next
    \/ \E d \in Delays : LateTick(d)
    \/ \E t \in Threads : LatePulse(t)

SpecPulse == Init /\ [][NextPulse]_vars

\* C21: when a backoff evaluated in open() exceeds its ceiling, it is the
\* last thing the call does: the backoff that exceeded does not sleep and
\* the clock stands where the earlier backoff of the call, if any, left it;
\* the response held, the reader, the writer and the queue are as they were
\* (no _reset), and no thread is started.  An open() of the caller's, called
\* directly or by write(), raises TooManyConnectFailures to the caller, with
\* the error held and the beat as they were; an open() called by the
\* keep-alive write of a thread raises it into that thread, which ends with
\* it as its error.
C21_TooManyFailuresIsFatal ==
    [][\A i \in 1..Len(bo') :
           bo'[i].raised =>
               /\ i = Len(bo')
               /\ bo'[i].slept = NoTime
               /\ bo'[i].wait > (IF bo'[i].kind = "linear" THEN linear_wait_max
                                 ELSE exponential_wait_max) * MsPerSecond
               /\ now' = IF i = 1 THEN now ELSE now + bo'[1].slept
               /\ UNCHANGED <<_response, _reader, _writer, _queue, _thread,
                              conns, nseq>>
               /\ \A t \in Threads :
                      threads[t].pc = "unstarted" => threads'[t].pc = "unstarted"
               /\ IF bo'[i].by = Caller
                  THEN /\ raised'.op \in {"open", "write"}
                       /\ raised'.exc = Exc("TooManyConnectFailures")
                       /\ UNCHANGED <<_error, _last_beat, threads>>
                  ELSE /\ raised' = NoRaise
                       /\ _error' = Exc("TooManyConnectFailures")
                       /\ threads[bo'[i].by].pc = "pulse"
                       /\ threads'[bo'[i].by].pc = "finally"]_vars

\* the fourth open() in a row that found an ignorable response and an error
\* that is not: the exponential wait is 625 s, over the ceiling of 320 s
C21_Witness ==
    /\ raised = [op |-> "open", exc |-> Exc("TooManyConnectFailures")]
    /\ Len(bo) = 1
    /\ bo[1].kind = "exponential"
    /\ bo[1].raised
    /\ bo[1].n = 4
    /\ _response # None
    /\ _error # NoExc


\* C22: a keep-alive is enqueued only by a thread in its loop, at its call
\* of _check_pulse, when a beat is recorded, more than 30 s have passed
\* since it and the queue is empty; the step records the beat and enqueues
\* the one empty chunk, without waiting (unless the write reopened the
\* handle, which resets the beat and may sleep in a backoff first); and more
\* than 30 s have passed since every earlier keep-alive.
C22_OneKeepAlivePerWindow ==
    [][beats' # beats =>
           /\ \E t \in Threads : /\ threads[t].pc = "pulse"
                                 /\ threads'[t].pc \in {"read", "finally"}
           /\ _last_beat # NoTime
           /\ now - _last_beat > pulse_interval * MsPerSecond
           /\ _queue = <<>>
           /\ beats' = Append(beats, now')
           /\ IF connected(Self(Caller))
              THEN now' = now /\ bo' = <<>> /\ _last_beat' = now
              ELSE /\ _last_beat' = NoTime
                   /\ now' >= now
                   /\ now' > now => \E i \in 1..Len(bo') : bo'[i].slept # NoTime
           /\ _queue' = <<[seq |-> nseq + 1, chunk |-> "\n"]>>
           /\ \A i \in 1..Len(beats) :
                  now - beats[i] > pulse_interval * MsPerSecond]_vars

\* two keep-alives were enqueued, 31 s apart
C22_Witness ==
    /\ Len(beats) = 2
    /\ beats[2] - beats[1] = 31000
    /\ _queue # <<>>
    /\ _queue[1].chunk = "\n"


C24_AtMostOnce ==
    [][/\ _chunk' # _chunk =>
              /\ _chunk'.seq > _chunk.seq
              /\ \E i \in 1..Len(_queue) : _queue[i] = _chunk'
              /\ \A i \in 1..Len(_queue') : _queue'[i].seq # _chunk'.seq
       /\ \A t \in Threads :
              \/ conns'[t].frames = conns[t].frames
              \/ /\ _chunk' # _chunk
                 /\ conns'[t].frames =
                        Append(conns[t].frames,
                               message(Len(_chunk'.chunk), _chunk'.chunk))
                 /\ \A u \in Threads \ {t} :
                        conns'[u].frames = conns[u].frames]_vars

\* a second thread, started after the first had taken a chunk and ended,
\* has taken the next one, with a third chunk pending
C24_Witness ==
    /\ _chunk.seq = 2
    /\ NumStarted(Self(Caller)) = 2
    /\ AliveWorkers = {2}
    /\ _queue # <<>>


\* C25 as stated: for the chunk c of a write(), the thread that takes
\* c + "\n" from the queue sends, on its connection, the message made of the
\* length of c + "\n", CRLF, c + "\n" and CRLF.
C25_ChunkEncodingRoundTrip ==
    [][_chunk' # _chunk =>
           \E t \in Threads :
               conns'[t].frames =
                   Append(conns[t].frames,
                          [hex_len |-> Len(_chunk'.chunk),
                           payload |-> _chunk'.chunk])]_vars


\* C26: every chunk in the queue, the chunk a thread has taken to send, and
\* every chunk message written to a connection has a length of at least 1:
\* the empty chunk of a keep-alive or of write('') is the line break alone.
C26_NoZeroLengthChunk ==
    /\ \A i \in 1..Len(_queue) : Len(_queue[i].chunk) >= 1
    /\ _chunk # NoChunk => Len(_chunk.chunk) >= 1
    /\ \A t \in Threads :
           \A j \in 1..Len(conns[t].frames) : conns[t].frames[j].hex_len >= 1

\* a thread has taken the chunk of a keep-alive, of length 1, to send it
C26_Witness ==
    /\ beats # <<>>
    /\ _chunk.chunk = "\n"
    /\ Len(_chunk.chunk) = 1


\* ------------------------------------------------- the Stream object
\* a call of a method of the Stream object, with what it raised
StreamCall(op, result) ==
    \E r \in {result} :
        /\ Len(r.sent) <= MaxStreamWrites
        /\ Call(op, r)

StreamHeartbeat == StreamCall("Stream.heartbeat", Stream_heartbeat(Self(Caller)))

StreamOpen ==
    \E outcome \in StreamOutcomes :
        StreamCall("Stream.open", Stream_open(Self(Caller), outcome))

StreamWrite(trace, layout, validating) ==
    StreamCall("Stream.write", Stream_write(Self(Caller), trace, layout, validating))

StreamClose == StreamCall("Stream.close", Stream_close(Self(Caller)))

NextStream ==
    \/ StreamHeartbeat
    \/ StreamOpen
    \/ \E trace \in Traces, layout \in Layouts, validating \in BOOLEAN :
           StreamWrite(trace, layout, validating)
    \/ StreamClose

SpecStream == Init /\ [][NextStream]_vars

\* C27: on a Stream object that was never opened, heartbeat(), close() and
\* write() with a dictionary-like trace each raise PlotlyError, write nothing
\* and leave _stream at None; the error is the one that says the stream has
\* not been opened, except for a write() whose validation rejects the trace
\* or the layout first.
C27_NeverOpenedRaisesUsageError ==
    [][~_stream.opened =>
           /\ (StreamHeartbeat \/ StreamClose) =>
                  /\ raised'.op \in {"Stream.heartbeat", "Stream.close"}
                  /\ raised'.exc = PlotlyError(NotOpened)
                  /\ sent' = sent
                  /\ _stream' = NoStream
           /\ \A trace \in Traces, layout \in Layouts, validating \in BOOLEAN :
                  StreamWrite(trace, layout, validating) =>
                      /\ raised'.op = "Stream.write"
                      /\ raised'.exc.type = "PlotlyError"
                      /\ (~validating \/ (validate(trace) /\ validate_stream(trace)
                                          /\ validate(layout)))
                             => raised'.exc = PlotlyError(NotOpened)
                      /\ sent' = sent
                      /\ _stream' = NoStream]_vars

\* write() with a valid trace, on a Stream object never opened, raised the
\* PlotlyError that says so
C27_Witness ==
    /\ _stream = NoStream
    /\ sent = <<>>
    /\ raised = [op |-> "Stream.write", exc |-> PlotlyError(NotOpened)]


\* C28 as stated: an open() that raises the failure the handle holds, the
\* response or the error, has cleared it, so that the next open() does not
\* raise it again.
C28_FailureClearedOnOpen ==
    [][(/\ CallOpen
        /\ raised' # NoRaise
        /\ raised'.exc.type # "TooManyConnectFailures")
           => (_response' = None /\ _error' = NoExc)]_vars

\* C29 as stated: an open() that finds the handle not connected, with no
\* response and an error of a class in ignore_errors, does not raise the
\* error and evaluates the linear backoff for it, whatever its class.
C29_IgnorableErrorBacksOffLinearly ==
    [][(/\ CallOpen
        /\ ~connected(Self(Caller))
        /\ _response = None
        /\ _error # NoExc
        /\ IsInstance(_error, ignore_errors))
           => /\ raised'.exc # _error
              /\ bo' # <<>>
              /\ bo'[1].kind = "linear"]_vars

\* C30 as stated: right after an open() that starts a thread the queue is
\* empty.
C30_QueueFreshOnOpen ==
    [][(CallOpen /\ threads' # threads) => _queue' = <<>>]_vars

\* C30, amended: no step that changes the queue is an open(): open() leaves
\* the queue as it was, whether it returns at once, raises or starts a
\* thread, so the chunks pending from before are there for the new thread.
C30_QueueKeptOnOpen ==
    [][_queue' # _queue => ~CallOpen]_vars

\* the first write() started thread 1 and its chunk is still queued; thread
\* 2 was started by an open(), no other chunk having been enqueued
C30_Witness ==
    /\ nseq = 1
    /\ Len(_queue) = 1
    /\ _thread = 2
    /\ threads[2].pc = "connect"
    /\ raised = NoRaise


\* C31 as stated: on every connection the handshake is written exactly once,
\* by the time the thread that opened it is past its initial write, and
\* before any chunk message.
C31_HandshakeOncePerConnection ==
    \A t \in Threads :
        /\ conns[t].handshakes <= 1
        /\ threads[t].pc \in {"initread", "pulse", "read"} =>
               conns[t].handshakes = 1
        /\ conns[t].frames # <<>> => conns[t].handshakes = 1



\* C32 as stated: draining a chunk never itself ends the worker: the step in
\* which a thread takes a pending chunk, having read no response and with
\* close() not called on it, stores no error, writes the chunk's message to
\* a connection and goes on to the next iteration of the loop.
C32_DrainingKeepsLoopRunning ==
    [][\A t \in Threads :
           (/\ threads[t].pc = "read"
            /\ threads'[t].pc # "read"
            /\ _chunk' # _chunk
            /\ _response' = None
            /\ threads[t].connected) =>
               /\ _error' = _error
               /\ threads'[t].pc = "pulse"
               /\ \E u \in Threads : conns'[u].frames # conns[u].frames]_vars



\* C33: an iteration of a thread's loop takes at most one chunk from the
\* queue, the one at its right end, and writes at most one message to a
\* connection; when the queue is empty at the write attempt the step takes
\* and writes nothing, leaves the queue empty and the clock where it was, and
\* goes on to the test of the loop.
C33_AtMostOneChunkPerIteration ==
    [][\A t \in Threads :
           (threads[t].pc = "read" /\ threads'[t].pc # "read") =>
               /\ \/ _queue' = _queue
                  \/ /\ _queue # <<>>
                     /\ _queue' = SubSeq(_queue, 1, Len(_queue) - 1)
               /\ Cardinality({u \in Threads :
                                   conns'[u].frames # conns[u].frames}) <= 1
               /\ \A u \in Threads :
                      Len(conns'[u].frames) <= Len(conns[u].frames) + 1
               /\ (_queue = <<>> /\ _error' = _error) =>
                      /\ _queue' = <<>>
                      /\ _chunk' = _chunk
                      /\ now' = now
                      /\ \A u \in Threads : conns'[u].frames = conns[u].frames
                      /\ threads'[t].pc \in {"pulse", "finally"}]_vars

\* the only thread started has been through its write attempt with nothing
\* ever written by the caller or by a keep-alive, and is back at the head of
\* its loop
C33_Witness ==
    /\ NumStarted(Self(Caller)) = 1
    /\ nseq = 0
    /\ _last_beat # NoTime
    /\ _queue = <<>>
    /\ _error = NoExc
    /\ threads[1].pc = "pulse"



\* ------------------------------------ failures of both classes in a run
MixedWithinBounds(r) ==
    /\ r.now <= MixedMaxTime
    /\ r._connect_errors <= MixedMaxConnectErrors
    /\ r._disconnections <= MixedMaxDisconnections

\* an evaluation of one policy, whatever the other has counted so far
EvaluateMixed(op, result) ==
    \E r \in {result} :
        /\ MixedWithinBounds(r)
        /\ Commit([r EXCEPT !.raised = IF Raised(r) THEN [op |-> op, exc |-> r.exc]
                                       ELSE NoRaise])

MixedLinearly ==
    EvaluateMixed("_back_off_linearly", _back_off_linearly(Self(Caller)))

MixedExponentially ==
    EvaluateMixed("_back_off_exponentially", _back_off_exponentially(Self(Caller)))

\* the time that passes between two failures (ms), besides the sleeps
MixedDelays == {33000}

MixedTick(d) ==
    /\ now + d <= MixedMaxTime
    /\ Commit([Self(Caller) EXCEPT !.now = @ + d])

NextMixed ==
    \/ MixedLinearly
    \/ MixedExponentially
    \/ \E d \in MixedDelays : MixedTick(d)

SpecMixed == Init /\ [][NextMixed]_vars

\* C34: the count of disconnections and the time of the last one change only
\* in a step with an exponential backoff evaluation, and the count of connect
\* errors and the time of the last one only in a step with a linear one: a
\* linear evaluation leaves the first pair as it was and an exponential
\* evaluation the second, whether the evaluation sleeps, resets its own count
\* after its decay window, or raises.
C34_CountersIndependent ==
    [][/\ (_disconnections' # _disconnections
              \/ _last_disconnection' # _last_disconnection) =>
              \E i \in 1..Len(bo') : bo'[i].kind = "exponential"
       /\ (_connect_errors' # _connect_errors
              \/ _last_connect_error' # _last_connect_error) =>
              \E i \in 1..Len(bo') : bo'[i].kind = "linear"]_vars

\* a linear evaluation has just reset its count after its decay window, with
\* three disconnections counted before it and left as they were
C34_Witness ==
    /\ bo # <<>>
    /\ bo[1].kind = "linear"
    /\ bo[1].before > 1
    /\ _connect_errors = 1
    /\ _disconnections = 3
    /\ _last_disconnection > 0
    /\ _last_connect_error > _last_disconnection



\* --------------------------------- sessions of one handle, one after another
SessionWithinBounds(r) ==
    /\ ~r.overflow
    /\ r.now <= SessionMaxTime
    /\ r.nseq <= MaxWrites
    /\ r._connect_errors <= MaxConnectErrors
    /\ r._disconnections <= MaxDisconnections

\* once every thread of the model has been started and has ended, the thread
\* objects and their closed connections are unreachable: their places are
\* free for the threads that later open() calls start
Forgotten(s) ==
    IF \A t \in Threads : s.threads[t].pc = "done"
    THEN [s EXCEPT !.threads = [t \in Threads |->
                                    [pc |-> "unstarted", connected |-> TRUE]],
                   !.conns = [t \in Threads |->
                                  [state |-> "none", handshakes |-> 0,
                                   frames |-> <<>>]]]
    ELSE s

SessionCall(op, result) ==
    \E r \in {result} :
        /\ SessionWithinBounds(r)
        /\ Commit([r EXCEPT !.raised = IF Raised(r) THEN [op |-> op, exc |-> r.exc]
                                       ELSE NoRaise])

SessionOpen == SessionCall("open", open(Forgotten(Self(Caller))))

SessionWrite(chunk) ==
    SessionCall("write", write(Forgotten(Self(Caller)), chunk))

SessionStep(result) == \E r \in {result} : SessionWithinBounds(r) /\ Commit(r)

\* the connections are made, and the reads give nothing or a response of the
\* server's, of either class of status
SessionConnectOutcomes == {"ok"}
SessionReadOutcomes ==
    {[raise |-> FALSE, data |-> d] : d \in {None, "404", "500"}}

SessionConnect(t) ==
    /\ threads[t].pc = "connect"
    /\ \E outcome \in SessionConnectOutcomes :
           SessionStep(open_connection(Self(t), t, outcome))

SessionHandshake(t) ==
    threads[t].pc = "handshake" /\ SessionStep(handshake(Self(t), t))

SessionInitRead(t) ==
    /\ threads[t].pc = "initread"
    /\ \E outcome \in SessionReadOutcomes :
           SessionStep(initial_read(Self(t), t, outcome))

SessionPulse(t) == threads[t].pc = "pulse" /\ SessionStep(pulse(Self(t), t))

SessionReadWrite(t) ==
    /\ threads[t].pc = "read"
    /\ \E outcome \in SessionReadOutcomes :
           SessionStep(read_write(Self(t), t, outcome))

SessionFinally(t) ==
    threads[t].pc = "finally" /\ SessionStep(finally(Self(t), t))

\* the time the caller lets pass before a call (ms)
SessionDelays == {600000}

SessionTick(d) ==
    /\ now + d <= SessionMaxTime
    /\ Commit([Self(Caller) EXCEPT !.now = @ + d])

NextSession ==
    \/ SessionOpen
    \/ \E chunk \in Chunks : SessionWrite(chunk)
    \/ \E d \in SessionDelays : SessionTick(d)
    \/ \E t \in Threads : SessionConnect(t)
    \/ \E t \in Threads : SessionHandshake(t)
    \/ \E t \in Threads : SessionInitRead(t)
    \/ \E t \in Threads : SessionPulse(t)
    \/ \E t \in Threads : SessionReadWrite(t)
    \/ \E t \in Threads : SessionFinally(t)

SpecSession == Init /\ [][NextSession]_vars

\* the last four responses of the server's came each less than 640 s after
\* the one before
FourDropsInARow ==
    /\ Len(drops) >= 4
    /\ \A k \in (Len(drops) - 2)..Len(drops) :
           drops[k] - drops[k - 1] < 2 * exponential_wait_max * MsPerSecond

\* C35 as stated: the open() that finds the fourth of four ignorable
\* disconnections by the server, each less than 640 s after the one before,
\* raises TooManyConnectFailures.
C35_FourDisconnectsAreFatal ==
    [][(/\ FourDropsInARow
        /\ drops' = drops
        /\ bo' # <<>>
        /\ bo'[1].kind = "exponential"
        /\ bo'[1].by = Caller) =>
           raised'.exc = Exc("TooManyConnectFailures")]_vars

\* the count a step leaves for a class of failure: that of the last backoff
\* evaluation of the class in the step, or else the count before the step
CountAfter(kind, count) ==
    LET evaluations == {i \in 1..Len(bo') : bo'[i].kind = kind}
    IN  IF evaluations = {} THEN count
        ELSE bo'[CHOOSE i \in evaluations : \A j \in evaluations : j <= i].n

\* C35, amended: a failure count changes only in a backoff evaluation of its
\* class, which sets it to one more than it was, or to 1 when more than twice
\* the ceiling of the class has passed since the evaluation before; no
\* connection made, chunk taken or handle reset changes a count.  So the
\* exponential evaluation of an open() that finds 3 disconnections counted,
\* the last one evaluated no more than 640 s before, raises
\* TooManyConnectFailures to the caller and starts no thread.
C35_CountersResetOnlyByTime ==
    [][/\ _disconnections' = CountAfter("exponential", _disconnections)
       /\ _connect_errors' = CountAfter("linear", _connect_errors)
       /\ \A i \in 1..Len(bo') :
              bo'[i].n =
                  IF bo'[i].elapsed >
                         2 * MsPerSecond * (IF bo'[i].kind = "linear"
                                            THEN linear_wait_max
                                            ELSE exponential_wait_max)
                  THEN 1 ELSE bo'[i].before + 1
       /\ \A i \in 1..Len(bo') :
              (/\ bo'[i].kind = "exponential"
               /\ bo'[i].by = Caller
               /\ _disconnections = 3
               /\ now - _last_disconnection <=
                      2 * exponential_wait_max * MsPerSecond) =>
                  /\ raised'.exc = Exc("TooManyConnectFailures")
                  /\ \A t \in Threads : threads'[t].pc # "connect"]_vars

\* four threads have each connected and received an ignorable response, and
\* the open() after the fourth has raised TooManyConnectFailures with no
\* error held
C35_Witness ==
    /\ Len(drops) = 4
    /\ raised = [op |-> "open", exc |-> Exc("TooManyConnectFailures")]
    /\ bo[1].kind = "exponential"
    /\ bo[1].n = 4
    /\ _error = NoExc
    /\ drops[4] - drops[1] < 2 * exponential_wait_max * MsPerSecond



C37_WorkerUsesOwnConnection ==
    [][/\ \A t \in Threads :
              (threads[t].pc # "unstarted" /\ threads'[t].pc # threads[t].pc) =>
                  \A u \in Threads \ {t} : conns'[u] = conns[u]
       /\ ((_writer # NoRef /\ _writer' = NoRef)
              \/ (_reader # NoRef /\ _reader' = NoRef)) =>
              \A t \in Threads :
                  threads[t].pc \notin {"handshake", "initread", "pulse",
                                        "read", "finally"}]_vars



\* C38: a write() of the caller that raises was called on a handle that was
\* not connected, raises what its open() raised (ClosedConnection for the
\* response held, the error held, or TooManyConnectFailures from a backoff),
\* and enqueues nothing: the queue and the count of chunks written are as
\* before the call, no thread is started and the handle has no thread.
C38_FailedWriteEnqueuesNothing ==
    [][(raised'.op = "write" /\ vars' # vars) =>
           /\ ~connected(Self(Caller))
           /\ \/ /\ raised'.exc.type = "ClosedConnection"
                 /\ _response # None
              \/ /\ raised'.exc = _error
                 /\ _error # NoExc
              \/ /\ raised'.exc = Exc("TooManyConnectFailures")
                 /\ bo' # <<>>
                 /\ bo'[Len(bo')].raised
           /\ _queue' = _queue
           /\ nseq' = nseq
           /\ undrained' = undrained
           /\ _thread' = _thread
           /\ \A t \in Threads :
                  threads'[t].pc = "connect" => threads[t].pc = "connect"]_vars

\* a write() has raised TooManyConnectFailures, with the chunk of an earlier
\* write still alone in the queue
C38_Witness ==
    /\ raised = [op |-> "write", exc |-> Exc("TooManyConnectFailures")]
    /\ Len(_queue) = 1
    /\ nseq = 1
    /\ _error = NoExc

====
